---- MODULE Spec2Model ----
(***************************************************************************)
(* State-machine model of train_gpt.py: construction of the GPT module     *)
(* tree (GPT.__init__, Block.__init__, CausalSelfAttention.__init__,       *)
(* MLP.__init__), the weight importer GPT.from_pretrained, and             *)
(* CausalSelfAttention.forward.                                            *)
(*                                                                         *)
(* A parameter name "transformer.h.0.attn.bias" is the sequence of its     *)
(* dot-separated components <<"transformer","h","0","attn","bias">>, so    *)
(* str.endswith on a dotted suffix is a comparison of trailing components. *)
(* A tensor is a record [shape, data]; data holds every element of a small *)
(* tensor and, of a large one, the elements whose every coordinate is      *)
(* below MaxIdx, which is enough to tell a copy from a transposed copy.    *)
(***************************************************************************)
EXTENDS Integers, Sequences, FiniteSets, TLC

VARIABLES
    entry,        \* which callable the run invokes
    pc,           \* position in the running code
    err,          \* exception that ended the run ("" while none)
    model_type,   \* argument of GPT.from_pretrained
    config,       \* GPTConfig in use (NoConfig before it exists)
    seed,         \* state of torch's random initialiser
    l,            \* index of the Block under construction
    heap,         \* tensors allocated so far, in allocation order
    modules,      \* registered state-dict names, in registration order
    bind,         \* state-dict name -> index into heap
    sd,           \* model.state_dict(): name -> index into heap
    sd_keys,      \* filtered key list of the new model
    sd_hf,        \* checkpoint state dict: sequence of [name, shape, data]
    sd_keys_hf,   \* filtered key list of the checkpoint
    i,            \* loop position in sd_keys_hf
    pre,          \* heap as it was when the import loop was about to start
    fetched,      \* TRUE once the checkpoint fetch has been attempted
    copied,       \* names copy_ has been called for, in call order
    returned,     \* TRUE once from_pretrained / the constructor returned
    x,            \* input of CausalSelfAttention.forward
    fwd           \* intermediate and final tensors of forward

vars == <<entry, pc, err, model_type, config, seed, l, heap, modules, bind, sd,
          sd_keys, sd_hf, sd_keys_hf, i, pre, fetched, copied, returned,
          x, fwd>>

(***************************************************************************)
(* Bounds of the model                                                     *)
(***************************************************************************)
MaxIdx   == 2   \* coordinates 0..MaxIdx-1 of a large tensor are tracked
MaxVal   == 2   \* tensor elements range over 0..MaxVal
MaxSeed  == 1   \* random-initialiser states 0..MaxSeed
MaxLayer == 2   \* n_layer of a directly constructed GPT ranges over 1..MaxLayer
MaxHead  == 2   \* n_head of a directly constructed module ranges over 1..MaxHead
MaxEmbd  == 3   \* n_embd of a directly constructed GPT ranges over 1..MaxEmbd
MaxBlock == 3   \* block_size of a directly constructed module ranges up to MaxBlock
MaxVocab == 3   \* vocab_size of a directly constructed GPT
MaxBatch == 1   \* batch size of a forward pass ranges over 1..MaxBatch

(***************************************************************************)
(* Helpers                                                                 *)
(***************************************************************************)
Min(a, b) == IF a < b THEN a ELSE b

Reverse(s) == [k \in 1..Len(s) |-> s[Len(s) + 1 - k]]

Digit == <<"0", "1", "2", "3", "4", "5", "6", "7", "8", "9">>

RECURSIVE ToStr(_)
ToStr(n) == IF n < 10 THEN Digit[n + 1]
            ELSE ToStr(n \div 10) \o Digit[(n % 10) + 1]

\* A tensor none of whose dimensions exceeds FullCap is held in full (the
\* widest tensor of a directly constructed module is c_fc.weight, 4*n_embd).
FullCap == 4 * MaxEmbd

RECURSIVE Box(_, _)
Box(shape, cap) ==
    IF shape = <<>> THEN {<<>>}
    ELSE { <<a>> \o rest : a \in 0..(Min(Head(shape), cap) - 1),
                           rest \in Box(Tail(shape), cap) }

\* The tracked coordinates of a tensor of the given shape.
Window(shape) ==
    IF \A d \in 1..Len(shape) : shape[d] <= FullCap
    THEN Box(shape, FullCap) ELSE Box(shape, MaxIdx)

\* k.endswith('.' + suffix components): a whole-component suffix with at
\* least one component before it.
EndsWithDot(k, suffix) ==
    /\ Len(k) > Len(suffix)
    /\ SubSeq(k, Len(k) - Len(suffix) + 1, Len(k)) = suffix

\* k.endswith(suffix components) where the suffix has no leading dot.
EndsWith(k, suffix) ==
    /\ Len(k) >= Len(suffix)
    /\ SubSeq(k, Len(k) - Len(suffix) + 1, Len(k)) = suffix

(***************************************************************************)
(* Names of the state dict                                                 *)
(***************************************************************************)
WTE     == <<"transformer", "wte", "weight">>
WPE     == <<"transformer", "wpe", "weight">>
LNF_W   == <<"transformer", "ln_f", "weight">>
LNF_B   == <<"transformer", "ln_f", "bias">>
LM_HEAD == <<"lm_head", "weight">>

\* Name of a tensor of Block number b; rest is its path below the block.
BlockName(b, rest) == <<"transformer", "h", ToStr(b)>> \o rest

(***************************************************************************)
(* GPTConfig and tensors                                                   *)
(***************************************************************************)
GPTConfig(bs, vs, nl, nh, ne) ==
    [block_size |-> bs, vocab_size |-> vs, n_layer |-> nl, n_head |-> nh,
     n_embd |-> ne]

NoConfig == GPTConfig(0, 0, 0, 0, 0)

Tensor(shape, f(_)) == [shape |-> shape, data |-> [ix \in Window(shape) |-> f(ix)]]

RECURSIVE SumSeq(_)
SumSeq(s) == IF s = <<>> THEN 0 ELSE Head(s) + SumSeq(Tail(s))

\* A freshly initialised random tensor: the values depend on the state of
\* the random initialiser and on how many tensors were drawn before it.
Rand(shape, sd0, nth) ==
    Tensor(shape, LAMBDA ix : (sd0 + nth + ix[1] + 2 * SumSeq(Tail(ix))) % (MaxVal + 1))

Ones(shape)  == Tensor(shape, LAMBDA ix : 1)
Zeros(shape) == Tensor(shape, LAMBDA ix : 0)

\* torch.triu in place of torch.tril.
TriuEntry(r, c) == IF c >= r THEN 1 ELSE 0

\* torch.tril(torch.ones(n, n)): entry (r, c) is 1 iff c <= r.
TrilEntry(r, c) == IF c <= r THEN 1 ELSE 0

\* torch.tril(torch.ones(bs, bs)).view(1, 1, bs, bs)
MaskBuffer(bs) == Tensor(<<1, 1, bs, bs>>, LAMBDA ix : TrilEntry(ix[3], ix[4]))

(***************************************************************************)
(* Module construction: every step allocates the tensors of one submodule  *)
(* and registers them under their state-dict names.                        *)
(***************************************************************************)
\* The module tree after registering tensor t under name.
Register(m, name, t) ==
    [heap    |-> Append(m.heap, t),
     modules |-> Append(m.modules, name),
     bind    |-> (name :> (Len(m.heap) + 1)) @@ m.bind]

Tree == [heap |-> heap, modules |-> modules, bind |-> bind]

SetTree(m) == /\ heap' = m.heap
              /\ modules' = m.modules
              /\ bind' = m.bind

\* nn.Linear(in, out) registered under prefix: weight (out, in) and bias (out).
Linear(m, prefix, in, out) ==
    LET m1 == Register(m, prefix \o <<"weight">>, Rand(<<out, in>>, seed, Len(m.heap)))
    IN  Register(m1, prefix \o <<"bias">>, Rand(<<out>>, seed, Len(m1.heap)))

\* nn.LayerNorm(n) registered under prefix: weight of ones, bias of zeros.
LayerNorm(m, prefix, n) ==
    LET m1 == Register(m, prefix \o <<"weight">>, Ones(<<n>>))
    IN  Register(m1, prefix \o <<"bias">>, Zeros(<<n>>))

\* nn.Embedding(rows, n) registered under prefix.
Embedding(m, prefix, rows, n) ==
    Register(m, prefix \o <<"weight">>, Rand(<<rows, n>>, seed, Len(m.heap)))

Fail(e) == /\ pc' = "fail"
           /\ err' = e

ImportVars == <<sd, sd_keys, sd_hf, sd_keys_hf, i, pre, fetched, copied>>
AttnVars   == <<x, fwd>>

(***************************************************************************)
(* CausalSelfAttention.__init__                                            *)
(***************************************************************************)
\* The constructor with the divisibility assertion after the allocations.
CausalSelfAttentionInitLateAssert(m, prefix, cfg) ==
    LET m1 == Linear(m, prefix \o <<"c_attn">>, cfg.n_embd, 3 * cfg.n_embd)
        m2 == Linear(m1, prefix \o <<"c_proj">>, cfg.n_embd, cfg.n_embd)
    IN  [ok |-> cfg.n_embd % cfg.n_head = 0,
         tree |-> Register(m2, prefix \o <<"bias">>, MaskBuffer(cfg.block_size))]

\* Outcome of the constructor run on module tree m: whether it returned,
\* and the tree it leaves behind.
CausalSelfAttentionInit(m, prefix, cfg) ==
    IF cfg.n_embd % cfg.n_head # 0
    THEN [ok |-> FALSE, tree |-> m]
    ELSE LET m1 == Linear(m, prefix \o <<"c_attn">>, cfg.n_embd, 3 * cfg.n_embd)
             m2 == Linear(m1, prefix \o <<"c_proj">>, cfg.n_embd, cfg.n_embd)
         IN  [ok |-> TRUE,
              tree |-> Register(m2, prefix \o <<"bias">>, MaskBuffer(cfg.block_size))]

\* MLP.__init__
MLPInit(m, prefix, cfg) ==
    LET m1 == Linear(m, prefix \o <<"c_fc">>, cfg.n_embd, 4 * cfg.n_embd)
    IN  Linear(m1, prefix \o <<"c_proj">>, 4 * cfg.n_embd, cfg.n_embd)

(***************************************************************************)
(* GPT.__init__, one action per submodule constructed                      *)
(***************************************************************************)
\* wte = nn.Embedding(config.vocab_size, config.n_embd)
MakeWte ==
    /\ pc = "wte"
    /\ SetTree(Embedding(Tree, <<"transformer", "wte">>, config.vocab_size, config.n_embd))
    /\ pc' = "wpe"
    /\ UNCHANGED <<entry, err, model_type, config, seed, l, returned>>
    /\ UNCHANGED ImportVars
    /\ UNCHANGED AttnVars

\* wpe = nn.Embedding(config.block_size, config.n_embd)
MakeWpe ==
    /\ pc = "wpe"
    /\ SetTree(Embedding(Tree, <<"transformer", "wpe">>, config.block_size, config.n_embd))
    /\ pc' = IF config.n_layer > 0 THEN "ln_1" ELSE "ln_f"
    /\ l' = 0
    /\ UNCHANGED <<entry, err, model_type, config, seed, returned>>
    /\ UNCHANGED ImportVars
    /\ UNCHANGED AttnVars

\* Block.__init__: self.ln_1 = nn.LayerNorm(config.n_embd)
MakeLn1 ==
    /\ pc = "ln_1"
    /\ SetTree(LayerNorm(Tree, BlockName(l, <<"ln_1">>), config.n_embd))
    /\ pc' = "attn"
    /\ UNCHANGED <<entry, err, model_type, config, seed, l, returned>>
    /\ UNCHANGED ImportVars
    /\ UNCHANGED AttnVars

\* CausalSelfAttention(config), inside a Block or on its own.
MakeAttn ==
    /\ pc = "attn"
    /\ LET prefix == IF entry = "CausalSelfAttention" THEN <<>>
                     ELSE BlockName(l, <<"attn">>)
           r == CausalSelfAttentionInit(Tree, prefix, config)
       IN  /\ SetTree(r.tree)
           /\ IF r.ok
              THEN /\ pc' = IF entry = "CausalSelfAttention" THEN "forward" ELSE "ln_2"
                   /\ err' = err
              ELSE Fail("AssertionError")
    /\ UNCHANGED <<entry, model_type, config, seed, l, returned>>
    /\ UNCHANGED ImportVars
    /\ UNCHANGED AttnVars

\* Block.__init__: self.ln_2 = nn.LayerNorm(config.n_embd)
MakeLn2 ==
    /\ pc = "ln_2"
    /\ SetTree(LayerNorm(Tree, BlockName(l, <<"ln_2">>), config.n_embd))
    /\ pc' = "mlp"
    /\ UNCHANGED <<entry, err, model_type, config, seed, l, returned>>
    /\ UNCHANGED ImportVars
    /\ UNCHANGED AttnVars

\* Block.__init__: self.mlp = MLP(config); then the next Block of the list.
MakeMlp ==
    /\ pc = "mlp"
    /\ SetTree(MLPInit(Tree, BlockName(l, <<"mlp">>), config))
    /\ l' = l + 1
    /\ pc' = IF l + 1 < config.n_layer THEN "ln_1" ELSE "ln_f"
    /\ UNCHANGED <<entry, err, model_type, config, seed, returned>>
    /\ UNCHANGED ImportVars
    /\ UNCHANGED AttnVars

\* ln_f = nn.LayerNorm(config.n_embd)
MakeLnF ==
    /\ pc = "ln_f"
    /\ SetTree(LayerNorm(Tree, <<"transformer", "ln_f">>, config.n_embd))
    /\ pc' = "lm_head"
    /\ UNCHANGED <<entry, err, model_type, config, seed, l, returned>>
    /\ UNCHANGED ImportVars
    /\ UNCHANGED AttnVars

\* self.lm_head = nn.Linear(config.n_embd, config.vocab_size, bias=False)
MakeLmHead ==
    /\ pc = "lm_head"
    /\ SetTree(Register(Tree, LM_HEAD,
                        Rand(<<config.vocab_size, config.n_embd>>, seed, Len(heap))))
    /\ pc' = "tie"
    /\ UNCHANGED <<entry, err, model_type, config, seed, l, returned>>
    /\ UNCHANGED ImportVars
    /\ UNCHANGED AttnVars

\* The tying assignment left out.
TieWeightsNot(b) == b

\* self.transformer.wte.weight = self.lm_head.weight: the name of the
\* embedding table is rebound to the tensor of the output projection.
TieWeights(b) == [b EXCEPT ![WTE] = b[LM_HEAD]]

Tie ==
    /\ pc = "tie"
    /\ bind' = TieWeights(bind)
    /\ IF entry = "from_pretrained"
       THEN pc' = "state_dict" /\ returned' = returned
       ELSE pc' = "done" /\ returned' = TRUE
    /\ UNCHANGED <<entry, err, model_type, config, seed, l, heap, modules>>
    /\ UNCHANGED ImportVars
    /\ UNCHANGED AttnVars

(***************************************************************************)
(* GPT.from_pretrained: preset lookup                                      *)
(***************************************************************************)
\* The set the assertion on model_type tests membership of.
Accepted == {"gpt2", "gpt2-medium", "gpt2-large", "gpt2-xl"}

\* Identifiers a caller may pass: the accepted ones and two others.
ModelTypes == Accepted \cup {"gpt-medium", "bert"}

\* The assertion left out: every identifier passes.
TypeAcceptedAny(t) == TRUE

\* assert model_type in {...}
TypeAccepted(t) == t \in Accepted

\* The config_args dictionary, keyed as the source keys it.
config_args ==
    [t \in {"gpt2", "gpt-medium", "gpt-large", "gpt-xl"} |->
        CASE t = "gpt2"       -> [n_layer |-> 12, n_head |-> 12, n_embd |-> 768]
          [] t = "gpt-medium" -> [n_layer |-> 24, n_head |-> 16, n_embd |-> 1024]
          [] t = "gpt-large"  -> [n_layer |-> 36, n_head |-> 20, n_embd |-> 1280]
          [] t = "gpt-xl"     -> [n_layer |-> 48, n_head |-> 25, n_embd |-> 1600]]

\* config_args['vocab_size'] = 50257; config_args['block_size'] = 1024;
\* config = GPTConfig(**config_args)
PresetConfig(t) ==
    GPTConfig(1024, 50257, config_args[t].n_layer, config_args[t].n_head,
              config_args[t].n_embd)

AssertType ==
    /\ pc = "assert_type"
    /\ IF TypeAccepted(model_type)
       THEN pc' = "config_args" /\ err' = err
       ELSE Fail("AssertionError")
    /\ UNCHANGED <<entry, model_type, config, seed, l, heap, modules, bind, returned>>
    /\ UNCHANGED ImportVars
    /\ UNCHANGED AttnVars

\* config_args = {...}[model_type] raises KeyError on a key the dict lacks.
ConfigLookup ==
    /\ pc = "config_args"
    /\ IF model_type \in DOMAIN config_args
       THEN /\ config' = PresetConfig(model_type)
            /\ pc' = "wte"
            /\ err' = err
       ELSE /\ Fail("KeyError")
            /\ config' = config
    /\ UNCHANGED <<entry, model_type, seed, l, heap, modules, bind, returned>>
    /\ UNCHANGED ImportVars
    /\ UNCHANGED AttnVars

(***************************************************************************)
(* GPT.from_pretrained: the two state dicts                                *)
(***************************************************************************)
\* k.endswith('.attn.bias')
IsMask(k) == EndsWithDot(k, <<"attn", "bias">>)

\* k.endswith('.attn.masked_bias')
IsMaskedBias(k) == EndsWithDot(k, <<"attn", "masked_bias">>)

\* sd_keys = [k for k in sd_keys if not k.endswith('.attn.bias')]
FilterKeys(keys) == SelectSeq(keys, LAMBDA k : ~IsMask(k))

\* The two filters applied to the checkpoint's keys.
FilterKeysHF(keys) ==
    SelectSeq(SelectSeq(keys, LAMBDA k : ~IsMaskedBias(k)), LAMBDA k : ~IsMask(k))

\* sd = model.state_dict(); sd_keys = ...
StateDict ==
    /\ pc = "state_dict"
    /\ sd' = bind
    /\ sd_keys' = FilterKeys(modules)
    /\ pre' = heap
    /\ pc' = "fetch"
    /\ UNCHANGED <<entry, err, model_type, config, seed, l, heap, modules, bind,
                   returned, sd_hf, sd_keys_hf, i, fetched, copied>>
    /\ UNCHANGED AttnVars

(***************************************************************************)
(* The external checkpoint, GPT2LMHeadModel.from_pretrained(model_type)    *)
(* .state_dict(): a sequence of [name, shape, data] in key order.  It is   *)
(* an input: the layout the hub serves for the identifier, with or without *)
(* the mask buffers, its embedding and output matrices tied or not, and    *)
(* possibly off by one entry, one name or one shape.                       *)
(***************************************************************************)
\* Layer count and width of the checkpoint the hub serves for an identifier.
HubConfig ==
    [t \in Accepted |->
        CASE t = "gpt2"        -> [n_layer |-> 12, n_embd |-> 768]
          [] t = "gpt2-medium" -> [n_layer |-> 24, n_embd |-> 1024]
          [] t = "gpt2-large"  -> [n_layer |-> 36, n_embd |-> 1280]
          [] t = "gpt2-xl"     -> [n_layer |-> 48, n_embd |-> 1600]]

Key(name, shape) == [name |-> name, shape |-> shape]

\* Keys of one block of the checkpoint; its four Conv1D weights are stored
\* (in, out), the transpose of nn.Linear's (out, in).
HubBlockKeys(b, ne, bs, buffers) ==
       << Key(BlockName(b, <<"ln_1", "weight">>), <<ne>>),
          Key(BlockName(b, <<"ln_1", "bias">>), <<ne>>) >>
    \o (IF buffers
        THEN << Key(BlockName(b, <<"attn", "bias">>), <<1, 1, bs, bs>>),
                Key(BlockName(b, <<"attn", "masked_bias">>), <<>>) >>
        ELSE <<>>)
    \o << Key(BlockName(b, <<"attn", "c_attn", "weight">>), <<ne, 3 * ne>>),
          Key(BlockName(b, <<"attn", "c_attn", "bias">>), <<3 * ne>>),
          Key(BlockName(b, <<"attn", "c_proj", "weight">>), <<ne, ne>>),
          Key(BlockName(b, <<"attn", "c_proj", "bias">>), <<ne>>),
          Key(BlockName(b, <<"ln_2", "weight">>), <<ne>>),
          Key(BlockName(b, <<"ln_2", "bias">>), <<ne>>),
          Key(BlockName(b, <<"mlp", "c_fc", "weight">>), <<ne, 4 * ne>>),
          Key(BlockName(b, <<"mlp", "c_fc", "bias">>), <<4 * ne>>),
          Key(BlockName(b, <<"mlp", "c_proj", "weight">>), <<4 * ne, ne>>),
          Key(BlockName(b, <<"mlp", "c_proj", "bias">>), <<ne>>) >>

RECURSIVE HubBlocks(_, _, _, _, _)
HubBlocks(b, nl, ne, bs, buffers) ==
    IF b >= nl THEN <<>>
    ELSE HubBlockKeys(b, ne, bs, buffers) \o HubBlocks(b + 1, nl, ne, bs, buffers)

HubKeys(t, buffers) ==
    LET nl == HubConfig[t].n_layer
        ne == HubConfig[t].n_embd
    IN     << Key(WTE, <<50257, ne>>), Key(WPE, <<1024, ne>>) >>
        \o HubBlocks(0, nl, ne, 1024, buffers)
        \o << Key(LNF_W, <<ne>>), Key(LNF_B, <<ne>>), Key(LM_HEAD, <<50257, ne>>) >>

\* Element ix of the checkpoint tensor at position pos.
HubValue(pos, ix, hseed) ==
    IF ix = <<>> THEN 0
    ELSE (hseed + pos + 2 * ix[1] + SumSeq(Tail(ix))) % (MaxVal + 1)

\* What may be wrong with the checkpoint served.
Faults == {"none", "reversed", "extra", "missing", "renamed", "shape"}

\* The entries a fault may hit.
FaultTargets == {WTE, BlockName(0, <<"attn", "c_attn", "weight">>),
                 BlockName(0, <<"ln_1", "bias">>), LM_HEAD}

Perturbations ==
    {<<"none", WTE>>, <<"reversed", WTE>>}
        \cup (( Faults \ {"none", "reversed"}) \X FaultTargets)

PosOf(keys, name) == CHOOSE n \in 1..Len(keys) : keys[n].name = name

\* The key list with the fault applied.
Perturb(keys, fault, target) ==
    LET n == PosOf(keys, target)
    IN  CASE fault = "none"     -> keys
          [] fault = "reversed" -> Reverse(keys)
          [] fault = "extra"    ->
                SubSeq(keys, 1, n)
                    \o << Key(<<"extra">> \o target, keys[n].shape) >>
                    \o SubSeq(keys, n + 1, Len(keys))
          [] fault = "missing"  ->
                SubSeq(keys, 1, n - 1) \o SubSeq(keys, n + 1, Len(keys))
          [] fault = "renamed"  ->
                [keys EXCEPT ![n].name = <<"renamed">> \o target]
          [] fault = "shape"    ->
                [keys EXCEPT ![n].shape = <<keys[n].shape[1] + 1>> \o Tail(keys[n].shape)]

\* The checkpoint: every key with its values; a tied checkpoint holds the
\* values of its embedding table under lm_head.weight as well.
Checkpoint(t, buffers, tied, fault, target, hseed) ==
    LET keys == Perturb(HubKeys(t, buffers), fault, target)
        wte  == IF \E n \in 1..Len(keys) : keys[n].name = WTE
                THEN PosOf(keys, WTE) ELSE 0
        src(n) == IF tied /\ keys[n].name = LM_HEAD /\ wte # 0 THEN wte ELSE n
    IN  [n \in 1..Len(keys) |->
            [name  |-> keys[n].name,
             shape |-> keys[n].shape,
             data  |-> [ix \in Window(keys[n].shape) |-> HubValue(src(n), ix, hseed)]]]

KeysOf(dict) == [n \in 1..Len(dict) |-> dict[n].name]

\* sd_hf[k]
Lookup(dict, k) == dict[CHOOSE n \in 1..Len(dict) : dict[n].name = k]

\* model_hf = GPT2LMHeadModel.from_pretrained(model_type); sd_hf = ...;
\* sd_keys_hf = ... : the fetch either fails, and the failure propagates,
\* or yields a checkpoint.
Fetch ==
    /\ pc = "fetch"
    /\ fetched' = TRUE
    /\ \/ /\ Fail("OSError")
          /\ UNCHANGED <<sd_hf, sd_keys_hf>>
       \/ /\ model_type \in DOMAIN HubConfig
          /\ \E buffers \in BOOLEAN, tied \in BOOLEAN, p \in Perturbations :
                sd_hf' = Checkpoint(model_type, buffers, tied, p[1], p[2], seed)
          /\ sd_keys_hf' = FilterKeysHF(KeysOf(sd_hf'))
          /\ pc' = "len_check"
          /\ err' = err
    /\ UNCHANGED <<entry, model_type, config, seed, l, heap, modules, bind,
                   returned, sd, sd_keys, i, pre, copied>>
    /\ UNCHANGED AttnVars

(***************************************************************************)
(* GPT.from_pretrained: the copy loop                                      *)
(***************************************************************************)
\* The count comparison weakened to: the checkpoint lacks no key.
SameLengthAtLeast(keys_hf, keys) == Len(keys_hf) >= Len(keys)

\* assert len(sd_keys_hf) == len(sd_keys)
SameLength(keys_hf, keys) == Len(keys_hf) = Len(keys)

LenCheck ==
    /\ pc = "len_check"
    /\ IF SameLength(sd_keys_hf, sd_keys)
       THEN /\ pc' = IF Len(sd_keys_hf) = 0 THEN "return" ELSE "loop"
            /\ err' = err
       ELSE Fail("AssertionError")
    /\ i' = 1
    /\ UNCHANGED <<entry, model_type, config, seed, l, heap, modules, bind,
                   returned, sd, sd_keys, sd_hf, sd_keys_hf, pre, fetched, copied>>
    /\ UNCHANGED AttnVars

transposed == { <<"attn", "c_attn", "weight">>, <<"attn", "c_proj", "weight">>,
                <<"mlp", "c_fc", "weight">>, <<"mlp", "c_proj", "weight">> }

\* any(k.endswith(w) for w in transposed)
IsTransposed(k) == \E w \in transposed : EndsWith(k, w)

\* The shape assertions left out.
ShapeOkAlways(k, src, dst) == TRUE

\* The assertion guarding the copy of k: the source's shape reversed, or
\* as it is, must be the destination's shape.
ShapeOk(k, src, dst) ==
    IF IsTransposed(k) THEN Reverse(src.shape) = dst.shape
    ELSE src.shape = dst.shape

\* tensor.t(): a tensor of fewer than two dimensions is returned as it is.
Transpose(t) ==
    IF Len(t.shape) # 2 THEN t
    ELSE [shape |-> Reverse(t.shape),
          data  |-> [ix \in {Reverse(jx) : jx \in DOMAIN t.data} |->
                        t.data[Reverse(ix)]]]

\* The copy without the transpose.
SourceAsIs(k, src) == src

\* The tensor handed to copy_ for key k.
Source(k, src) == IF IsTransposed(k) THEN Transpose(src) ELSE src

\* dst.copy_(src): the elements of dst take the values of src; the shape
\* of dst is never changed.
CopyInto(dst, src) ==
    [dst EXCEPT !.data = [ix \in DOMAIN dst.data |->
                             IF ix \in DOMAIN src.data THEN src.data[ix]
                             ELSE dst.data[ix]]]

\* The loop body with a key the model lacks skipped instead of raising.
LoopBodySkipUnknown(h, k) ==
    IF k \notin DOMAIN sd
    THEN [err |-> "", heap |-> h, copied |-> FALSE]
    ELSE IF ~ShapeOk(k, Lookup(sd_hf, k), h[sd[k]])
    THEN [err |-> "AssertionError", heap |-> h, copied |-> FALSE]
    ELSE [err |-> "",
          heap |-> [h EXCEPT ![sd[k]] = CopyInto(h[sd[k]], Source(k, Lookup(sd_hf, k)))],
          copied |-> TRUE]

\* One iteration of the loop on key k over heap h: the exception it raises
\* ("" when none) and the heap it leaves.
LoopBody(h, k) ==
    IF k \notin DOMAIN sd
    THEN [err |-> "KeyError", heap |-> h, copied |-> FALSE]
    ELSE IF ~ShapeOk(k, Lookup(sd_hf, k), h[sd[k]])
    THEN [err |-> "AssertionError", heap |-> h, copied |-> FALSE]
    ELSE [err |-> "",
          heap |-> [h EXCEPT ![sd[k]] = CopyInto(h[sd[k]], Source(k, Lookup(sd_hf, k)))],
          copied |-> TRUE]

\* for k in sd_keys_hf: ...
LoopStep ==
    /\ pc = "loop"
    /\ LET r == LoopBody(heap, sd_keys_hf[i])
       IN  /\ heap' = r.heap
           /\ copied' = IF r.copied THEN Append(copied, sd_keys_hf[i]) ELSE copied
           /\ IF r.err = ""
              THEN /\ i' = i + 1
                   /\ pc' = IF i = Len(sd_keys_hf) THEN "return" ELSE "loop"
                   /\ err' = err
              ELSE /\ Fail(r.err)
                   /\ i' = i
    /\ UNCHANGED <<entry, model_type, config, seed, l, modules, bind, returned,
                   sd, sd_keys, sd_hf, sd_keys_hf, pre, fetched>>
    /\ UNCHANGED AttnVars

\* return model
Return ==
    /\ pc = "return"
    /\ returned' = TRUE
    /\ pc' = "done"
    /\ UNCHANGED <<entry, err, model_type, config, seed, l, heap, modules, bind>>
    /\ UNCHANGED ImportVars
    /\ UNCHANGED AttnVars

(***************************************************************************)
(* CausalSelfAttention.forward.  A tensor of the pass is a strided view    *)
(* [shape, strides, off] of a flat storage, as in torch: split, view and   *)
(* transpose make new views of the storage of qkv and copy nothing.        *)
(***************************************************************************)
RECURSIVE Prod(_)
Prod(s) == IF s = <<>> THEN 1 ELSE Head(s) * Prod(Tail(s))

\* Strides of a contiguous tensor of the given shape.
CStrides(shape) == [d \in 1..Len(shape) |-> Prod(SubSeq(shape, d + 1, Len(shape)))]

Indices(shape) == Box(shape, FullCap)

Dot(a, b) == SumSeq([d \in 1..Len(a) |-> a[d] * b[d]])

\* Storage address of element ix of view v.
Addr(v, ix) == v.off + Dot(ix, v.strides)

\* Position of ix in the row-major order of shape, and its inverse.
Rank(shape, ix) == Dot(ix, CStrides(shape))
Unrank(shape, r) == [d \in 1..Len(shape) |-> (r \div CStrides(shape)[d]) % shape[d]]

\* tensor.view(newshape): the same storage read in the same row-major
\* order under the new shape; it exists only if strides for the new shape
\* reproduce the addresses of the old one, otherwise torch raises.
View(v, newshape) ==
    LET at(r) == Addr(v, Unrank(v.shape, r))
        ns == [d \in 1..Len(newshape) |->
                 IF newshape[d] > 1 THEN at(CStrides(newshape)[d]) - v.off ELSE 0]
        nv == [shape |-> newshape, strides |-> ns, off |-> v.off]
    IN  IF \A ix \in Indices(newshape) : Addr(nv, ix) = at(Rank(newshape, ix))
        THEN [ok |-> TRUE, view |-> nv]
        ELSE [ok |-> FALSE, view |-> v]

\* tensor.transpose(1, 2) of a four-dimensional view (dimensions from 0).
Transpose12(v) ==
    [shape   |-> <<v.shape[1], v.shape[3], v.shape[2], v.shape[4]>>,
     strides |-> <<v.strides[1], v.strides[3], v.strides[2], v.strides[4]>>,
     off     |-> v.off]

\* The elements of a view, by index.
Elements(v, storage) == [ix \in Indices(v.shape) |-> storage[Addr(v, ix)]]

\* self.c_attn(x): x @ W^T + b, a contiguous (B, T, 3C) tensor, flat.
Project(xt, W, b) ==
    LET B == xt.shape[1]
        T == xt.shape[2]
        C == xt.shape[3]
        O == W.shape[1]
    IN  [a \in 0..(B * T * O - 1) |->
            LET ix == Unrank(<<B, T, O>>, a)
            IN  SumSeq([c \in 1..C |->
                    W.data[<<ix[3], c - 1>>] * xt.data[<<ix[1], ix[2], c - 1>>]])
                + b.data[<<ix[3]>>]]

\* qkv.split(n_embd, dim=2): chunk number n, a view of qkv's storage.
Chunk(n, B, T, C) ==
    [shape |-> <<B, T, C>>, strides |-> <<T * 3 * C, 3 * C, 1>>, off |-> n * C]

\* t.view(B, T, n_head, C // n_head).transpose(1, 2)
ToHeads(v, B, T, nh, C) ==
    LET r == View(v, <<B, T, nh, C \div nh>>)
    IN  [ok |-> r.ok, view |-> IF r.ok THEN Transpose12(r.view) ELSE v]

\* The three per-head views: k from the second chunk, and q and v each
\* from a view of k.
QKVHeads(B, T, nh, C) ==
    LET k == ToHeads(Chunk(1, B, T, C), B, T, nh, C)
        q == ToHeads(k.view, B, T, nh, C)
        v == ToHeads(k.view, B, T, nh, C)
    IN  [ok |-> k.ok /\ q.ok /\ v.ok, q |-> q.view, k |-> k.view, v |-> v.view]

\* float('-inf') among the scores; 0 and nan among the weights.
NegInf == [inf |-> TRUE, dot |-> 0, hs |-> 0]
Zero   == [kind |-> "zero", exp |-> NegInf, over |-> <<>>]
NaN    == [kind |-> "nan", exp |-> NegInf, over |-> <<>>]

\* (q @ k.transpose(-2, -1)) * (1.0 / math.sqrt(k.size(-1))): the score
\* dot / sqrt(hs) is held exactly, as the pair of dot and hs.
Scores(q, k, B, T, nh, hs) ==
    [ix \in Indices(<<B, nh, T, T>>) |->
        [inf |-> FALSE,
         dot |-> SumSeq([d \in 1..hs |->
                    q[<<ix[1], ix[2], ix[3], d - 1>>] * k[<<ix[1], ix[2], ix[4], d - 1>>]]),
         hs  |-> hs]]

\* att.masked_fill(self.bias[:, :, :T, :T] == 0, float('-inf'))
MaskedFill(att, mask) ==
    [ix \in DOMAIN att |->
        IF mask.data[<<0, 0, ix[3], ix[4]>>] = 0 THEN NegInf ELSE att[ix]]

\* F.softmax(att, dim=-1): exp(-inf) is exactly 0; a finite score gets the
\* positive weight exp(s) / sum of exp over its row, held exactly as the
\* score and the scores of the row; a row of -inf alone is nan.
Softmax(att, T) ==
    [ix \in DOMAIN att |->
        LET row == [j \in 1..T |-> att[<<ix[1], ix[2], ix[3], j - 1>>]]
        IN  IF \A j \in 1..T : row[j] = NegInf THEN NaN
            ELSE IF att[ix] = NegInf THEN Zero
            ELSE [kind |-> "pos", exp |-> att[ix], over |-> row]]

\* att @ v: the weighted sum over the key axis, held exactly as its terms;
\* a term of weight 0 contributes nothing.
WeightedSum(att, v, B, T, nh, hs) ==
    [ix \in Indices(<<B, nh, T, hs>>) |->
        LET w(j) == att[<<ix[1], ix[2], ix[3], j>>]
        IN  [j \in {jj \in 0..(T - 1) : w(jj) # Zero} |->
                <<w(j), v[<<ix[1], ix[2], j, ix[4]>>]>>]]

\* y.transpose(1, 2).contiguous().view(B, T, C)
MergeHeads(y, B, T, nh, hs) ==
    [ix \in Indices(<<B, T, nh * hs>>) |->
        y[<<ix[1], ix[3] \div hs, ix[2], ix[3] % hs>>]]

\* self.c_proj(y): y @ W^T + b, held exactly as its terms.
ProjectOut(y, W, b, B, T, C) ==
    [ix \in Indices(<<B, T, C>>) |->
        [terms |-> [c \in 0..(C - 1) |-> <<W.data[<<ix[3], c>>], y[<<ix[1], ix[2], c>>]>>],
         bias  |-> b.data[<<ix[3]>>]]]

\* The whole pass on input xt: every tensor it computes, or the error.
ForwardPass(xt, h, b, nh) ==
    LET B   == xt.shape[1]
        T   == xt.shape[2]
        C   == xt.shape[3]
        hs  == C \div nh
        qkv == Project(xt, h[b[<<"c_attn", "weight">>]], h[b[<<"c_attn", "bias">>]])
        hd  == QKVHeads(B, T, nh, C)
    IN  IF ~hd.ok THEN [err |-> "RuntimeError", qkv |-> qkv]
        ELSE LET q   == Elements(hd.q, qkv)
                 k   == Elements(hd.k, qkv)
                 v   == Elements(hd.v, qkv)
                 att == Softmax(MaskedFill(Scores(q, k, B, T, nh, hs), h[b[<<"bias">>]]), T)
                 y   == MergeHeads(WeightedSum(att, v, B, T, nh, hs), B, T, nh, hs)
             IN  [err |-> "", qkv |-> qkv, q |-> q, k |-> k, v |-> v, att |-> att,
                  y |-> ProjectOut(y, h[b[<<"c_proj", "weight">>]],
                                   h[b[<<"c_proj", "bias">>]], B, T, C)]

\* An input of shape (B, T, n_embd) with T <= block_size.
Input(B, T, C, xs) ==
    Tensor(<<B, T, C>>, LAMBDA ix : (xs + ix[1] + 2 * ix[2] + ix[3]) % (MaxVal + 1))

Forward ==
    /\ pc = "forward"
    /\ \E B \in 1..MaxBatch, T \in 1..config.block_size, xs \in 0..MaxSeed :
          x' = Input(B, T, config.n_embd, xs)
    /\ fwd' = ForwardPass(x', heap, bind, config.n_head)
    /\ IF fwd'.err = ""
       THEN pc' = "done" /\ err' = err /\ returned' = TRUE
       ELSE Fail(fwd'.err) /\ returned' = returned
    /\ UNCHANGED <<entry, model_type, config, seed, l, heap, modules, bind>>
    /\ UNCHANGED ImportVars

(***************************************************************************)
(* The runs                                                                *)
(***************************************************************************)
\* The field defaults of the GPTConfig dataclass.
DefaultConfig == GPTConfig(256, 65, 6, 8, 384)

\* Configurations a GPT is constructed from directly.
DirectConfigs ==
    { GPTConfig(MaxBlock, MaxVocab, nl, nh, ne) :
        nl \in 0..MaxLayer, nh \in 1..MaxHead, ne \in 1..MaxEmbd }

\* Configurations a CausalSelfAttention is constructed from on its own.
AttnConfigs ==
    { [DefaultConfig EXCEPT !.block_size = bs, !.n_head = nh, !.n_embd = ne] :
        bs \in 1..MaxBlock, nh \in 1..MaxHead, ne \in 1..MaxEmbd }

NoTensor == [shape |-> <<>>, data |-> <<>>]

Init ==
    /\ entry \in {"from_pretrained", "GPT", "CausalSelfAttention"}
    /\ seed \in 0..MaxSeed
    /\ \/ /\ entry = "from_pretrained"
          /\ model_type \in ModelTypes
          /\ config = NoConfig
          /\ pc = "assert_type"
       \/ /\ entry = "GPT"
          /\ model_type = ""
          /\ config \in DirectConfigs
          /\ pc = "wte"
       \/ /\ entry = "CausalSelfAttention"
          /\ model_type = ""
          /\ config \in AttnConfigs
          /\ pc = "attn"
    /\ err = ""
    /\ l = 0
    /\ heap = <<>>
    /\ modules = <<>>
    /\ bind = <<>>
    /\ sd = <<>>
    /\ sd_keys = <<>>
    /\ sd_hf = <<>>
    /\ sd_keys_hf = <<>>
    /\ i = 0
    /\ pre = <<>>
    /\ fetched = FALSE
    /\ copied = <<>>
    /\ returned = FALSE
    /\ x = NoTensor
    /\ fwd = [err |-> "none"]

Next ==
    \/ AssertType
    \/ ConfigLookup
    \/ MakeWte
    \/ MakeWpe
    \/ MakeLn1
    \/ MakeAttn
    \/ MakeLn2
    \/ MakeMlp
    \/ MakeLnF
    \/ MakeLmHead
    \/ Tie
    \/ StateDict
    \/ Fetch
    \/ LenCheck
    \/ LoopStep
    \/ Return
    \/ Forward

Spec == Init /\ [][Next]_vars

(***************************************************************************)
(* Properties                                                              *)
(***************************************************************************)
Range(s) == {s[n] : n \in 1..Len(s)}

Importing == entry = "from_pretrained"

\* The checkpoint's names that are neither '.attn.masked_bias' nor
\* '.attn.bias', and the model's names that are not '.attn.bias'.
KeptHF  == {n \in 1..Len(sd_hf) : ~IsMask(sd_hf[n].name) /\ ~IsMaskedBias(sd_hf[n].name)}
KeptOwn == {n \in 1..Len(modules) : ~IsMask(modules[n])}

\* The import has got past the comparison of the two key counts.
PastLenCheck == Importing /\ pc \in {"loop", "return", "done", "fail"}
                    /\ fetched /\ err # "OSError"

\* The import completed without raising.
Imported == Importing /\ returned

\* C1: every identifier the assertion accepts gets its preset's
\* configuration (gpt2: 12 layers, 12 heads, width 768) with vocab_size
\* 50257 and block_size 1024, and none fails at the lookup.
C1_AcceptedPresetConfigured ==
    (Importing /\ model_type \in Accepted /\ pc \notin {"assert_type", "config_args"})
        => /\ config \in {PresetConfig(t) : t \in DOMAIN config_args}
           /\ config.vocab_size = 50257
           /\ config.block_size = 1024
           /\ model_type = "gpt2" =>
                 config.n_layer = 12 /\ config.n_head = 12 /\ config.n_embd = 768
           /\ ~(pc = "fail" /\ err = "KeyError" /\ ~fetched)

\* C2: an identifier outside the accepted set ends the run in an
\* assertion failure, with no fetch attempted, no configuration built and
\* no tensor of a model allocated.
C2_RejectedBeforeFetch ==
    (Importing /\ model_type \notin Accepted)
        => /\ ~fetched
           /\ config = NoConfig
           /\ heap = <<>>
           /\ ~returned
           /\ pc = "assert_type" \/ (pc = "fail" /\ err = "AssertionError")

C2_Witness == Importing /\ model_type \notin Accepted /\ pc = "fail"

\* C3: when the two filtered key counts differ the import fails with the
\* mismatch assertion before any copy: nothing was copied and every tensor
\* of the model holds its pre-import value.
C3_MismatchBeforeCopy ==
    (PastLenCheck /\ Cardinality(KeptHF) # Cardinality(KeptOwn))
        => /\ pc = "fail"
           /\ err = "AssertionError"
           /\ copied = <<>>
           /\ heap = pre
           /\ ~returned

C3_Witness == PastLenCheck /\ Cardinality(KeptHF) # Cardinality(KeptOwn) /\ pc = "fail"

\* What the destination of key k holds if it was copied from entry src:
\* element (i, j) is src (j, i) for a transposed name, src (i, j) otherwise.
CopiedFrom(k, dst, src) ==
    \A ix \in DOMAIN dst.data :
        dst.data[ix] = IF IsTransposed(k) THEN src.data[<<ix[2], ix[1]>>]
                       ELSE src.data[ix]

\* C4 as stated: after a completed import every imported parameter,
\* the embedding table and the output projection included, holds its
\* same-named source, transposed for the four transposed suffixes.
C4_EveryDestinationIsItsSource ==
    Imported => \A n \in KeptHF :
                    CopiedFrom(sd_hf[n].name, heap[sd[sd_hf[n].name]], sd_hf[n])

\* The one of the two tied names the loop copies last.
LastTied == sd_keys_hf[CHOOSE n \in 1..Len(sd_keys_hf) :
                /\ sd_keys_hf[n] \in {WTE, LM_HEAD}
                /\ \A m \in (n + 1)..Len(sd_keys_hf) : sd_keys_hf[m] \notin {WTE, LM_HEAD}]

\* C4 amended: as C4, except that the two tied names, being one tensor,
\* both hold the source of whichever of them is copied last.
C4_DestinationIsSourceUpToTying ==
    Imported => \A n \in KeptHF :
                    LET k == sd_hf[n].name
                    IN  IF k \in {WTE, LM_HEAD}
                        THEN CopiedFrom(k, heap[sd[k]], Lookup(sd_hf, LastTied))
                        ELSE CopiedFrom(k, heap[sd[k]], sd_hf[n])

C4_Witness ==
    /\ Imported
    /\ Lookup(sd_hf, WTE).data # Lookup(sd_hf, LM_HEAD).data
    /\ \E n \in KeptHF : IsTransposed(sd_hf[n].name)

\* C5: a completed import leaves no name unmatched: every name of the model
\* but the masks was copied exactly once, from the entry of that name, and
\* every kept checkpoint entry was copied; and when the two key lists have
\* the same size but not the same names the import never completes.
C5_NoUnmatchedNames ==
    /\ Imported =>
          /\ \A n \in KeptOwn :
                Cardinality({j \in 1..Len(copied) : copied[j] = modules[n]}) = 1
          /\ \A n \in KeptHF : sd_hf[n].name \in Range(copied)
          /\ Len(copied) = Cardinality(KeptOwn)
    /\ (PastLenCheck /\ Cardinality(KeptHF) = Cardinality(KeptOwn)
            /\ {sd_hf[n].name : n \in KeptHF} # {modules[n] : n \in KeptOwn})
          => ~returned /\ pc \in {"loop", "fail"}

C5_Witness == Imported /\ Len(copied) = Cardinality(KeptOwn) /\ Len(copied) > 0

\* The import failed on the shape assertion of the key at position i.
ShapeFailure ==
    /\ PastLenCheck
    /\ pc = "fail"
    /\ err = "AssertionError"
    /\ Cardinality(KeptHF) = Cardinality(KeptOwn)

\* The shape relation the assertion on key k demands of source and
\* destination.
ShapesAgree(k) ==
    LET s == Lookup(sd_hf, k).shape
        d == pre[sd[k]].shape
    IN  IF IsTransposed(k)
        THEN Len(s) = Len(d) /\ \A n \in 1..Len(s) : s[n] = d[Len(d) + 1 - n]
        ELSE s = d

\* The destination of name n has been written since the import began.
Written(n) == heap[sd[n]] # pre[sd[n]]

\* C6 as stated: a destination is written only once its own shape check
\* has passed, and on the first failing check the failing parameter's
\* destination is unwritten, no later parameter is copied, no model is
\* returned and no tensor has changed shape.
C6_WrittenOnlyAfterOwnCheck ==
    PastLenCheck =>
        /\ \A n \in DOMAIN sd :
              Written(n) => (n \in Range(copied) /\ ShapesAgree(n))
        /\ ShapeFailure =>
              /\ ~Written(sd_keys_hf[i])
              /\ \A m \in i..Len(sd_keys_hf) : sd_keys_hf[m] \notin Range(copied)
              /\ ~returned
        /\ \A o \in 1..Len(pre) :
              heap[o].shape = pre[o].shape /\ DOMAIN heap[o].data = DOMAIN pre[o].data

\* C6 amended: copy_ is called for a name only once that name's shape
\* check has passed; on the first failing check no copy_ is made for the
\* failing name or any later one, no model is returned, no tensor has
\* changed shape, and every tensor is unwritten except those of the names
\* already copied (the tied tensor of wte and lm_head counts as written as
\* soon as either name was copied).
C6_CopiedOnlyAfterOwnCheck ==
    PastLenCheck =>
        LET done == Range(copied)
        IN  /\ \A n \in KeptHF :
                  sd_hf[n].name \in done =>
                      LET s == sd_hf[n].shape
                          d == pre[sd[sd_hf[n].name]].shape
                      IN  IF IsTransposed(sd_hf[n].name)
                          THEN Len(s) = Len(d) /\ \A m \in 1..Len(s) : s[m] = d[Len(d) + 1 - m]
                          ELSE s = d
            /\ done \subseteq {sd_hf[n].name : n \in KeptHF}
            /\ {o \in 1..Len(pre) : heap[o] # pre[o]} \subseteq {sd[c] : c \in done}
            /\ ShapeFailure =>
                  /\ copied = SubSeq(sd_keys_hf, 1, i - 1)
                  /\ sd_keys_hf[i] \notin done
                  /\ ~returned
            /\ \A o \in 1..Len(pre) :
                  heap[o].shape = pre[o].shape /\ DOMAIN heap[o].data = DOMAIN pre[o].data

C6_Witness == ShapeFailure /\ i > 1 /\ Len(copied) = i - 1

\* The GPT constructor has run to its end.
Constructed ==
    /\ entry \in {"GPT", "from_pretrained"}
    /\ LM_HEAD \in DOMAIN bind
    /\ pc # "tie"

\* C7: from the end of construction on, through every step of the import,
\* the embedding table and the output projection are one tensor: the two
\* names are bound to the same object (in the module tree and in the state
\* dict the importer writes through) and so read the same values.
C7_WeightTying ==
    Constructed =>
        /\ bind[WTE] = bind[LM_HEAD]
        /\ heap[bind[WTE]] = heap[bind[LM_HEAD]]
        /\ sd # <<>> => (sd[WTE] = sd[LM_HEAD] /\ heap[sd[WTE]] = heap[sd[LM_HEAD]])

\* The importer has copied into one of the two names, and the value is
\* read through the other.
C7_Witness ==
    /\ Constructed
    /\ pc = "loop"
    /\ WTE \in Range(copied)
    /\ LM_HEAD \notin Range(copied)
    /\ heap[sd[LM_HEAD]] # pre[sd[LM_HEAD]]
    /\ heap[sd[LM_HEAD]].data = Lookup(sd_hf, WTE).data

\* A forward pass of the standalone attention module has completed.
Attended == entry = "CausalSelfAttention" /\ pc = "done"

\* The per-head tensor (B, n_head, T, hs) read from chunk number n of the
\* combined projection: element (b, h, t, d) is qkv (b, t, n*C + h*hs + d).
HeadsOfChunk(n) ==
    LET B  == x.shape[1]
        T  == x.shape[2]
        C  == x.shape[3]
        hs == C \div config.n_head
    IN  [ix \in Indices(<<B, config.n_head, T, hs>>) |->
            fwd.qkv[Rank(<<B, T, 3 * C>>,
                         <<ix[1], ix[3], n * C + ix[2] * hs + ix[4]>>)]]

\* C8: the query, key and value tensors used by a pass are read from the
\* first, second and third chunk of the combined projection.
C8_QKVFromOwnChunks ==
    Attended =>
        /\ fwd.q = HeadsOfChunk(0)
        /\ fwd.k = HeadsOfChunk(1)
        /\ fwd.v = HeadsOfChunk(2)

\* C9: every mask buffer is lower-triangular (entry (i, j) nonzero iff
\* j <= i), and in every completed pass the weight from query i to a later
\* key j is exactly zero while no row is fully masked: no weight is nan and
\* every query keeps a positive weight on its own position.
C9_Causality ==
    /\ \A n \in 1..Len(modules) :
          (modules[n] = <<"bias">> \/ IsMask(modules[n])) =>
              \A ix \in DOMAIN heap[bind[modules[n]]].data :
                  (heap[bind[modules[n]]].data[ix] # 0) <=> (ix[4] <= ix[3])
    /\ Attended =>
          \A ix \in DOMAIN fwd.att :
              /\ ix[4] > ix[3] => fwd.att[ix] = Zero
              /\ fwd.att[ix] # NaN
              /\ ix[4] = ix[3] => fwd.att[ix].kind = "pos"

C9_Witness ==
    /\ Attended
    /\ x.shape[2] >= 2
    /\ \E ix \in DOMAIN fwd.att : ix[4] > ix[3] /\ fwd.att[ix] = Zero

\* Construction ended in the divisibility assertion.
ConstructionFailure ==
    entry \in {"GPT", "CausalSelfAttention"} /\ pc = "fail" /\ err = "AssertionError"

\* C10 as stated: construction from a pair with n_embd not divisible by
\* n_head fails, and fails with no tensor allocated.
C10_FailsBeforeAnyAllocation ==
    /\ ConstructionFailure => heap = <<>>
    /\ (entry \in {"GPT", "CausalSelfAttention"} /\ config.n_embd % config.n_head # 0
            /\ (entry = "GPT" => config.n_layer >= 1))
          => ~returned

\* C10 amended: construction from such a pair fails at the first
\* CausalSelfAttention constructor; on its own that is before any tensor
\* is allocated, and inside a GPT it is after the two embedding tables and
\* the first block's first LayerNorm were allocated but before any
\* projection matrix or mask buffer.
C10_FailsBeforeAnyProjection ==
    /\ (ConstructionFailure /\ entry = "CausalSelfAttention") => heap = <<>>
    /\ (ConstructionFailure /\ entry = "GPT") =>
          /\ modules = << WTE, WPE, BlockName(0, <<"ln_1", "weight">>),
                          BlockName(0, <<"ln_1", "bias">>) >>
          /\ Len(heap) = Len(modules)
    /\ (entry \in {"GPT", "CausalSelfAttention"} /\ config.n_embd % config.n_head # 0
            /\ (entry = "GPT" => config.n_layer >= 1))
          => /\ ~returned
             /\ pc \in {"wte", "wpe", "ln_1", "attn", "fail"}
             /\ \A n \in 1..Len(modules) :
                   modules[n] \in {WTE, WPE} \/ EndsWithDot(modules[n], <<"ln_1", "weight">>)
                       \/ EndsWithDot(modules[n], <<"ln_1", "bias">>)

C10_Witness == ConstructionFailure /\ entry = "GPT" /\ Len(heap) > 0

====
